---- MODULE Spec2Model ----
(***************************************************************************)
(* Model of the two record-synchronisation programs of the repository:     *)
(*   - the YouTube statistics script   (src/youtube_views.js)              *)
(*   - the Twitter video-count block   (src/unnamed/part_000)              *)
(* Both read the records of a table, query an external API and write the   *)
(* returned value back to a destination field in batches.                  *)
(*                                                                         *)
(* A run is modelled the way the JavaScript event loop executes it: every  *)
(* action is one event (a click, the start of the script, the completion   *)
(* of an awaited call, a timer) and carries the program from one `await`   *)
(* to the next one.  Strings are sequences of tokens or of characters.     *)
(***************************************************************************)
EXTENDS Integers, Sequences, FiniteSets, TLC

(***************************************************************************)
(* Bounds of the model.                                                    *)
(* The two programs set their batch limits to 50 (youtube_views.js:49,     *)
(* youtube_views.js:54, part_000:25).  The model keeps the limits as       *)
(* parameters and explores small values, so that tables of a few records   *)
(* already need several batches.                                           *)
(***************************************************************************)
MaxRecords == 4

MaxRuns == 2

\* the longest table of the specification with several runs
MaxRunRecords == 2

\* the longest table of the specification with the larger sets of sources
MaxExtractRecords == 1

maxYoutubeResults == 2

maxAirtableWrites == 2

MAX_RECORDS_PER_UPDATE == 2

(***************************************************************************)
(* Values                                                                  *)
(***************************************************************************)
\* JavaScript values that cells, JSON documents and updates can hold.
Undefined == [t |-> "undefined"]

Null == [t |-> "null"]

NaN == [t |-> "NaN"]

Num(n) == [t |-> "num", n |-> n]

Str(s) == [t |-> "str", s |-> s]

Obj(props) == [t |-> "obj", props |-> props]

\* the characters "0".."9" and their values
DigitChars == <<"0", "1", "2", "3", "4", "5", "6", "7", "8", "9">>

IsDigit(c) == \E d \in 1..10 : DigitChars[d] = c

DigitValue(c) == (CHOOSE d \in 1..10 : DigitChars[d] = c) - 1

Quote == "\""

(***************************************************************************)
(* Source field values.  A cell's string is a sequence of tokens:          *)
(*   <<"https://", host, path..., "?v=", id>>                              *)
(***************************************************************************)
YTSources ==
    { <<"https://", "vimeo", ".", "com", "/abc123">>,
      <<"https://", "www", ".", "youtube", ".", "com", "/watch", "?v=", "a">>,
      <<"https://", "www", ".", "youtube", ".", "com", "/watch", "?v=", "b">> }

TWSources ==
    { <<>>,
      <<"https://", "twitter", ".", "com", "/user">>,
      <<"https://", "twitter", ".", "com", "/user", "/status/", "123">> }

\* further values of the video field: other hosts, the bare domain, a watch
\* URL without v, and text that is not a URL
YTOtherSources ==
    { <<"https://", "youtube", ".", "com", "/watch", "?v=", "a">>,
      <<"https://", "not", "youtube", ".", "com", "/watch", "?v=", "a">>,
      <<"https://", "youtube", "x", "com", "/watch", "?v=", "a">>,
      <<"https://", "www", ".", "youtube", ".", "com", "/watch">>,
      <<"junk">> }

\* further values of the Twitter URL field: a status URL of a subdomain and
\* one of another host
TWOtherSources ==
    { <<"https://", "mobile", ".", "twitter", ".", "com", "/user", "/status/", "123">>,
      <<"https://", "vimeo", ".", "com", "/user", "/status/", "123">> }

\* tokens that end the host part of a URL
PathTokens == {"/abc123", "/watch", "/user", "/status/", "?v="}

\* tokens that are one character long
CharTokens == {".", "x", "-"}

NoURL == [ok |-> FALSE]

RECURSIVE HostEnd(_, _)
\* index of the last token of the host, scanning from token k
HostEnd(s, k) ==
    IF k > Len(s) \/ s[k] \in PathTokens THEN k - 1 ELSE HostEnd(s, k + 1)

\* new URL(url): throws unless the string has a scheme and a host
ParseURL(s) ==
    IF Len(s) >= 2 /\ s[1] = "https://" /\ HostEnd(s, 2) >= 2
    THEN [ok |-> TRUE,
          host |-> SubSeq(s, 2, HostEnd(s, 2)),
          v |-> IF \E k \in 1..(Len(s) - 1) : s[k] = "?v="
                THEN s[(CHOOSE k \in 1..(Len(s) - 1) : s[k] = "?v=") + 1]
                ELSE ""]
    ELSE NoURL

\* /(^|.)youtube.com$/i.test(host): the dots are unescaped, so each matches
\* any one character, and (^|.) accepts the start or any character
HostTest(host) ==
    LET n == Len(host) IN
    /\ n >= 3
    /\ host[n] = "com"
    /\ host[n - 1] \in CharTokens
    /\ host[n - 2] = "youtube"

NoId == ""

parseId(url) ==
    LET u == ParseURL(url) IN
    IF ~u.ok THEN NoId
    ELSE IF ~HostTest(u.host) THEN NoId
    ELSE u.v

\* articleTitle.match("/status/")
MatchStatus(s) == \E k \in 1..Len(s) : s[k] = "/status/"

(***************************************************************************)
(* getPath, JSON.stringify, replaceAll and parseInt                        *)
(***************************************************************************)
Thrown == [t |-> "thrown"]

RECURSIVE getPath(_, _)
\* walks the property names of path; Thrown when a name is not defined
getPath(object, path) ==
    IF path = <<>> THEN object
    ELSE IF object.t # "obj" THEN Thrown
    ELSE IF Head(path) \notin DOMAIN object.props THEN Thrown
    ELSE getPath(object.props[Head(path)], Tail(path))

RECURSIVE DigitsOf(_)
\* decimal digits of a natural number
DigitsOf(n) ==
    IF n < 10 THEN <<DigitChars[n + 1]>>
    ELSE DigitsOf(n \div 10) \o <<DigitChars[(n % 10) + 1]>>

\* JSON.stringify of a number or of a string (a string is quoted; the
\* strings of the model hold no character that needs an escape)
JSONstringify(v) ==
    IF v.t = "num" THEN DigitsOf(v.n)
    ELSE IF v.t = "str" THEN <<Quote>> \o v.s \o <<Quote>>
    ELSE <<"n", "u", "l", "l">>

RECURSIVE replaceAllQuotes(_)
\* s.replaceAll('"', '')
replaceAllQuotes(s) ==
    IF s = <<>> THEN <<>>
    ELSE IF Head(s) = Quote THEN replaceAllQuotes(Tail(s))
    ELSE <<Head(s)>> \o replaceAllQuotes(Tail(s))

RECURSIVE DigitPrefixValue(_, _)
\* value of the longest prefix of digits of s, acc being the value so far
DigitPrefixValue(s, acc) ==
    IF s = <<>> \/ ~IsDigit(Head(s)) THEN acc
    ELSE DigitPrefixValue(Tail(s), 10 * acc + DigitValue(Head(s)))

\* parseInt(s): the leading digits, NaN when there is none
parseInt(s) ==
    IF s = <<>> \/ ~IsDigit(Head(s)) THEN NaN
    ELSE Num(DigitPrefixValue(s, 0))

(***************************************************************************)
(* Array helpers                                                           *)
(***************************************************************************)
Min(a, b) == IF a < b THEN a ELSE b

CeilDiv(n, d) == (n + d - 1) \div d

\* slice taking one element more
slice_Wide(arr, from, to) == SubSeq(arr, from + 1, Min(to + 1, Len(arr)))

\* array.slice(from, to) with 0-based bounds
slice(arr, from, to) == SubSeq(arr, from + 1, Min(to, Len(arr)))

\* splice returning one element more than it removes
spliceHead_More(arr, n) == SubSeq(arr, 1, Min(n + 1, Len(arr)))

\* array.splice(0, n): the removed head and what remains
spliceHead(arr, n) == SubSeq(arr, 1, Min(n, Len(arr)))

\* splice removing one element more than it returns
spliceRest_Drop(arr, n) == SubSeq(arr, Min(n, Len(arr)) + 2, Len(arr))

spliceRest(arr, n) == SubSeq(arr, Min(n, Len(arr)) + 1, Len(arr))

(***************************************************************************)
(* The external metadata APIs                                              *)
(***************************************************************************)
\* the statistic paths a user may configure, already split at the periods
StatisticPaths == { <<"statistics", "viewCount">>, <<"snippet", "thumb">> }

DestinationTypes == { "number", "multipleAttachments" }

\* the videos the table's sources name
VideoIds == {"a", "b"}

\* what the YouTube API knows about a video

ViewCountOf(vid) == IF vid = "a" THEN Str(<<"1", "5">>) ELSE Str(<<"7">>)

ThumbOf(vid) == Str(<<"h", "/", vid>>)

\* the video resource of vid restricted to the requested part; a resource
\* that is not complete lacks the leaf property of the part
VideoResource(vid, part, complete) ==
    LET leaf == IF part = "statistics" THEN "viewCount" ELSE "thumb"
        val == IF part = "statistics" THEN ViewCountOf(vid) ELSE ThumbOf(vid)
        inner == IF complete THEN Obj([x \in {leaf} |-> val])
                 ELSE Obj([x \in {} |-> Null])
    IN Obj([x \in {"id", part} |-> IF x = "id" THEN Str(<<vid>>) ELSE inner])

RECURSIVE SelectIdx(_, _, _)
\* the elements of seq at the positions in keep, from position k on
SelectIdx(seq, keep, k) ==
    IF k > Len(seq) THEN <<>>
    ELSE (IF k \in keep THEN <<seq[k]>> ELSE <<>>) \o SelectIdx(seq, keep, k + 1)

Rejected == [kind |-> "rejected"]

\* every answer to a videos request for ids: a network failure, a non-success
\* status, or a document whose items describe any subset of the ids, in
\* request order, each complete or not, possibly followed by one more item
NotOk == [kind |-> "response", ok |-> FALSE, items |-> <<>>]

\* the success answer holding the entries of the ids at the positions in
\* keep, those at the positions in partial without the statistic, and, when
\* extra, one more entry
YTResponse(ids, part, keep, partial, extra) ==
    [kind |-> "response", ok |-> TRUE,
     items |-> [k \in 1..Len(SelectIdx(ids, keep, 1)) |->
                   VideoResource(SelectIdx(ids, keep, 1)[k], part,
                       SelectIdx([j \in 1..Len(ids) |-> j], keep, 1)[k] \notin partial)]
               \o (IF extra THEN <<VideoResource("z", part, TRUE)>> ELSE <<>>)]

YTResponses(ids, part) ==
    { Rejected, NotOk }
    \cup
    { YTResponse(ids, part, keep, partial, extra) :
        keep \in SUBSET (1..Len(ids)), partial \in SUBSET (1..Len(ids)),
        extra \in BOOLEAN }

\* every answer of the tweet endpoint: a failure of fetch or of the JSON
\* decoding, a null document, a document with the count, or an error
\* document sent with a non-success status
TWResponses ==
    { Rejected,
      [kind |-> "response", ok |-> TRUE, body |-> Null],
      [kind |-> "response", ok |-> TRUE,
       body |-> Obj([x \in {"view_count"} |-> Num(42)])],
      [kind |-> "response", ok |-> FALSE,
       body |-> Obj([x \in {"error"} |-> Str(<<"e">>)])] }

(***************************************************************************)
(* State                                                                   *)
(***************************************************************************)
VARIABLES
    variant,             \* which program runs: "twitter" or "youtube"
    hasPermission,       \* may the user update the destination field
    settings,            \* destination field type and statistic path
    table,               \* the records of the table, with their source value
    store,               \* destination field value of each record
    isUpdateInProgress,  \* the React state of the Twitter block
    runs,                \* the state of every run of the pipeline
    pending,             \* the external calls in flight
    api,                 \* how the external API answers a request
    log                  \* the calls of the latest run, issued and completed

vars == <<variant, hasPermission, settings, table, store,
          isUpdateInProgress, runs, pending, api, log>>

Runs == 1..MaxRuns

NoRun ==
    [pc |-> "idle", records |-> <<>>, i |-> 0, w |-> 0,
     recordUpdates |-> <<>>,
     bareItems |-> <<>>, annotatedItems |-> <<>>, workingSet |-> <<>>]

Ev(r, op, arg, res) == [run |-> r, op |-> op, arg |-> arg, res |-> res]

CallOps == {"select", "fetch", "write"}

\* a run is over when its flow has returned or died with an exception
Finished(st) == st.pc \in {"done", "crashed"}

Running(st) == st.pc \notin {"idle", "done", "crashed"}

\* the run that the next trigger starts
NextRun(r) ==
    /\ runs[r].pc = "idle"
    /\ \A q \in Runs : q < r => runs[q].pc # "idle"

\* the API is free to answer every call as it likes
AnyAnswer == [kind |-> "any"]

\* the API answers a request the same way every time it is made: the tweet
\* endpoint by the tweet URL, videos.list by what it holds about each video
SameAnswers ==
    IF variant = "twitter"
    THEN { [kind |-> "same", byUrl |-> f] : f \in [TWSources -> TWResponses] }
    ELSE { [kind |-> "same", fails |-> fails, known |-> {},
            partial |-> {}, extra |-> FALSE] :
             fails \in {"rejected", "notOk"} }
         \cup
         { [kind |-> "same", fails |-> "no", known |-> known,
            partial |-> partial, extra |-> extra] :
             known \in SUBSET VideoIds, partial \in SUBSET VideoIds,
             extra \in BOOLEAN }

\* the answers the tweet endpoint may give to the request for url
TWAnswers(url) ==
    IF api.kind = "any" THEN TWResponses ELSE {api.byUrl[url]}

\* the answers videos.list may give to the request for ids
YTAnswers(ids, part) ==
    IF api.kind = "any" THEN YTResponses(ids, part)
    ELSE IF api.fails = "rejected" THEN {Rejected}
    ELSE IF api.fails = "notOk" THEN {NotOk}
    ELSE { YTResponse(ids, part,
                      {k \in 1..Len(ids) : ids[k] \in api.known},
                      {k \in 1..Len(ids) : ids[k] \in api.partial},
                      api.extra) }

InitWith(maxLen, tw, yt, apis) ==
    /\ variant \in {"twitter", "youtube"}
    /\ hasPermission \in BOOLEAN
    /\ settings \in
         IF variant = "twitter"
         THEN {[destType |-> "number", statistic |-> <<"view_count">>]}
         ELSE [destType : DestinationTypes, statistic : StatisticPaths]
    /\ \E n \in 0..maxLen :
         /\ \E srcs \in [1..n -> IF variant = "twitter" THEN tw ELSE yt] :
              table = [k \in 1..n |-> [id |-> k, src |-> srcs[k]]]
         /\ store = [k \in 1..n |-> Null]
    /\ isUpdateInProgress = FALSE
    /\ runs = [r \in Runs |-> NoRun]
    /\ pending = {}
    /\ api \in apis
    /\ log = <<>>

Init == InitWith(MaxRecords, TWSources, YTSources, {AnyAnswer})

InitRuns == InitWith(MaxRunRecords, TWSources, YTSources, {AnyAnswer})

\* one run over a table of up to MaxExtractRecords records whose source
\* values are drawn from the larger sets
InitExtract ==
    InitWith(MaxExtractRecords, TWSources \cup TWOtherSources,
             YTSources \cup YTOtherSources, {AnyAnswer})

\* the runs of InitRuns against an API that answers a request the same way
\* every time
InitSame == InitWith(MaxRunRecords, TWSources, YTSources, SameAnswers)

\* the effect of one event of run r: res.st is the run's new state and
\* res.out the calls and events it produced, recorded after the events in
\* before; done is the call that completed
Commit(r, res, done, before) ==
    /\ runs' = [runs EXCEPT ![r] = res.st]
    /\ log' = before \o res.out
    /\ pending' = (pending \ done) \cup
         { [id |-> Len(before) + k, run |-> r, op |-> res.out[k].op,
            arg |-> res.out[k].arg] :
             k \in {j \in 1..Len(res.out) : res.out[j].op \in CallOps} }

\* an exception leaves the async flow, nothing catches it; the locals of
\* the flow are gone
Crash(r, events) ==
    [st |-> [NoRun EXCEPT !.pc = "crashed"],
     out |-> events \o <<Ev(r, "end", <<>>, "crashed")>>]

\* the flow returns; its locals are gone
Return(r, events) ==
    [st |-> [NoRun EXCEPT !.pc = "done"],
     out |-> events \o <<Ev(r, "end", <<>>, "done")>>]

\* table.updateRecordsAsync(updates) resolved: the cells take the new values
ApplyUpdates(cells, updates) ==
    [id \in DOMAIN cells |->
        IF \E k \in 1..Len(updates) : updates[k].id = id
        THEN LET last == CHOOSE k \in 1..Len(updates) :
                            /\ updates[k].id = id
                            /\ \A j \in (k + 1)..Len(updates) : updates[j].id # id
             IN updates[last].value
        ELSE cells[id]]

(***************************************************************************)
(* The Twitter block                                                       *)
(***************************************************************************)
\* the button stays on screen during an update
ButtonEnabled_Always == hasPermission

\* the button is rendered only while no update is in progress, and is
\* enabled only with the permission to update the destination field
ButtonEnabled == ~isUpdateInProgress /\ hasPermission

\* updateRecordsInBatchesAsync calling updateRecordsAsync without `await`:
\* every batch is issued before any has completed
updateRecordsInBatchesAsync_NoAwait(r, st) ==
    IF st.w < Len(st.recordUpdates)
    THEN [st |-> [st EXCEPT !.pc = "awaitWrite"],
          out |-> [k \in 1..CeilDiv(Len(st.recordUpdates) - st.w,
                                    MAX_RECORDS_PER_UPDATE) |->
                     Ev(r, "write",
                        slice(st.recordUpdates,
                              st.w + (k - 1) * MAX_RECORDS_PER_UPDATE,
                              st.w + k * MAX_RECORDS_PER_UPDATE),
                        "")]]
    ELSE Return(r, <<>>)

\* updateRecordsInBatchesAsync at the head of its while loop, st.w being i
updateRecordsInBatchesAsync(r, st) ==
    IF st.w < Len(st.recordUpdates)
    THEN [st |-> [st EXCEPT !.pc = "awaitWrite"],
          out |-> <<Ev(r, "write",
                       slice(st.recordUpdates, st.w, st.w + MAX_RECORDS_PER_UPDATE),
                       "")>>]
    ELSE Return(r, <<>>)

\* getExtractAndImageUpdatesAsync at the head of its for loop, st.i being
\* the position of the next record; after the last record the caller goes
\* on with updateRecordsInBatchesAsync
getExtractAndImageUpdatesAsync(r, st) ==
    IF st.i <= Len(st.records)
    THEN [st |-> [st EXCEPT !.pc = "awaitFetch"],
          out |-> <<Ev(r, "fetch", <<st.records[st.i].id>>, "")>>]
    ELSE LET nxt == updateRecordsInBatchesAsync(r, [st EXCEPT !.w = 0])
         IN [st |-> nxt.st,
             out |-> <<Ev(r, "writeAll", st.recordUpdates, "")>> \o nxt.out]

\* setIsUpdateInProgress(false) is reached only when the flow returns
FlagAfter(flag, st) == IF st.pc = "done" THEN FALSE ELSE flag

onButtonClick(r) ==
    /\ variant = "twitter"
    /\ NextRun(r)
    /\ ButtonEnabled
    /\ LET st == [NoRun EXCEPT !.records = table, !.i = 1]
           nxt == getExtractAndImageUpdatesAsync(r, st)
           res == [st |-> nxt.st, out |-> <<Ev(r, "start", <<>>, "")>> \o nxt.out]
       IN /\ Commit(r, res, {}, <<>>)
          /\ isUpdateInProgress' = FlagAfter(TRUE, res.st)
    /\ UNCHANGED <<variant, hasPermission, settings, table, store, api>>

\* pageSummary.view_count
ViewCount(pageSummary) ==
    IF pageSummary.t = "obj" /\ "view_count" \in DOMAIN pageSummary.props
    THEN pageSummary.props["view_count"]
    ELSE Undefined

\* the for loop body adding the count to a total kept from one click to the
\* next instead of taking it as the new value: after r runs that got the
\* same count the total is r times the count
TWAfterFetch_Accumulate(r, st, resp) ==
    LET record == st.records[st.i]
        articleTitle == record.src
    IN
    IF resp.kind = "rejected"
    THEN Crash(r, <<Ev(r, "fetchDone", <<record.id>>, "rejected")>>)
    ELSE
      LET done == Ev(r, "fetchDone", <<record.id>>,
                     IF resp.ok THEN "ok" ELSE "notOk")
          pageSummary == resp.body
      IN
      IF \/ articleTitle = <<>>
         \/ ~MatchStatus(articleTitle)
         \/ pageSummary.t \in {"null", "undefined"}
      THEN LET nxt == getExtractAndImageUpdatesAsync(r, [st EXCEPT !.i = @ + 1])
           IN [st |-> nxt.st, out |-> <<done>> \o nxt.out]
      ELSE [st |-> [st EXCEPT
                      !.recordUpdates =
                          Append(@, [id |-> record.id,
                                     value |->
                                       IF ViewCount(pageSummary).t = "num"
                                       THEN Num(ViewCount(pageSummary).n * r)
                                       ELSE ViewCount(pageSummary)]),
                      !.pc = "delay"],
            out |-> <<done, Ev(r, "delay", <<>>, "")>>]

\* the body of the for loop after `await fetch` and `await response.json()`
TWAfterFetch(r, st, resp) ==
    LET record == st.records[st.i]
        articleTitle == record.src
    IN
    IF resp.kind = "rejected"
    THEN Crash(r, <<Ev(r, "fetchDone", <<record.id>>, "rejected")>>)
    ELSE
      LET done == Ev(r, "fetchDone", <<record.id>>,
                     IF resp.ok THEN "ok" ELSE "notOk")
          pageSummary == resp.body
      IN
      IF \/ articleTitle = <<>>
         \/ ~MatchStatus(articleTitle)
         \/ pageSummary.t \in {"null", "undefined"}
      THEN LET nxt == getExtractAndImageUpdatesAsync(r, [st EXCEPT !.i = @ + 1])
           IN [st |-> nxt.st, out |-> <<done>> \o nxt.out]
      ELSE [st |-> [st EXCEPT
                      !.recordUpdates =
                          Append(@, [id |-> record.id,
                                     value |-> ViewCount(pageSummary)]),
                      !.pc = "delay"],
            out |-> <<done, Ev(r, "delay", <<>>, "")>>]

TWFetchCompleted(r) ==
    /\ variant = "twitter"
    /\ runs[r].pc = "awaitFetch"
    /\ \E c \in pending, resp \in TWAnswers(runs[r].records[runs[r].i].src) :
         /\ c.run = r /\ c.op = "fetch"
         /\ LET res == TWAfterFetch(r, runs[r], resp)
            IN /\ Commit(r, res, {c}, log)
               /\ isUpdateInProgress' = FlagAfter(isUpdateInProgress, res.st)
    /\ UNCHANGED <<variant, hasPermission, settings, table, store, api>>

\* the timer of delayAsync(50) fires
TWDelayElapsed(r) ==
    /\ variant = "twitter"
    /\ runs[r].pc = "delay"
    /\ LET nxt == getExtractAndImageUpdatesAsync(r, [runs[r] EXCEPT !.i = @ + 1])
           res == [st |-> nxt.st,
                   out |-> <<Ev(r, "delayDone", <<>>, "")>> \o nxt.out]
       IN /\ Commit(r, res, {}, log)
          /\ isUpdateInProgress' = FlagAfter(isUpdateInProgress, res.st)
    /\ UNCHANGED <<variant, hasPermission, settings, table, store, api>>

\* the loop going on with the next batch after a failed write
TWAfterWrite_Continue(r, st, c, ok) ==
    LET nxt == updateRecordsInBatchesAsync(r,
                   [st EXCEPT !.w = @ + MAX_RECORDS_PER_UPDATE])
    IN [st |-> nxt.st,
        out |-> <<Ev(r, "writeDone", c.arg, IF ok THEN "ok" ELSE "failed")>>
                \o nxt.out]

\* the loop of updateRecordsInBatchesAsync after `await updateRecordsAsync`
TWAfterWrite(r, st, c, ok) ==
    IF ok
    THEN LET nxt == updateRecordsInBatchesAsync(r,
                        [st EXCEPT !.w = @ + MAX_RECORDS_PER_UPDATE])
         IN [st |-> nxt.st,
             out |-> <<Ev(r, "writeDone", c.arg, "ok")>> \o nxt.out]
    ELSE Crash(r, <<Ev(r, "writeDone", c.arg, "failed")>>)

\* updateRecordsAsync settles: it may always fail, and it succeeds only for
\* a user who may update the field
TWWriteCompleted(r) ==
    /\ variant = "twitter"
    /\ runs[r].pc = "awaitWrite"
    /\ \E c \in pending, ok \in BOOLEAN :
         /\ c.run = r /\ c.op = "write"
         /\ ok => hasPermission
         /\ LET res == TWAfterWrite(r, runs[r], c, ok)
            IN /\ Commit(r, res, {c}, log)
               /\ isUpdateInProgress' = FlagAfter(isUpdateInProgress, res.st)
         /\ store' = IF ok THEN ApplyUpdates(store, c.arg) ELSE store
    /\ UNCHANGED <<variant, hasPermission, settings, table, api>>

(***************************************************************************)
(* The YouTube script                                                      *)
(***************************************************************************)
\* name.split(".", 1): the part of the video resource to request
PartOf(name) == Head(name)

\* the value stored for an annotated item, by the type of the destination
FieldValue(item) ==
    IF settings.destType = "multipleAttachments"
    THEN [t |-> "attachments", list |-> <<[url |-> item.statistic]>>]
    ELSE parseInt(replaceAllQuotes(item.statistic))

\* an async function that threw, and one that returned value
Throws == [thrown |-> TRUE, value |-> <<>>]

Returns(value) == [thrown |-> FALSE, value |-> value]

\* fetchVideoData after `await fetch`: the annotated items, or an exception
fetchVideoData(items, name, resp) ==
    IF resp.kind = "rejected" THEN Throws
    ELSE IF ~resp.ok THEN Throws
    ELSE
      LET stats == [k \in 1..Len(resp.items) |-> getPath(resp.items[k], name)]
      IN IF \E k \in 1..Len(stats) : stats[k].t = "thrown" THEN Throws
         ELSE Returns([k \in 1..Len(stats) |->
                 IF k <= Len(items)
                 THEN [record |-> items[k].record,
                       videoId |-> items[k].videoId,
                       statistic |-> JSONstringify(stats[k])]
                 ELSE [record |-> Undefined,
                       videoId |-> NoId,
                       statistic |-> JSONstringify(stats[k])]])

\* the second while loop at its head: the next batch of annotated items is
\* mapped to updates and written; item.record.id throws on an item that has
\* no record
YTWriteLoop(r, st) ==
    IF st.annotatedItems # <<>>
    THEN
      LET workingSet == spliceHead(st.annotatedItems, maxAirtableWrites)
          rest == spliceRest(st.annotatedItems, maxAirtableWrites)
          st2 == [st EXCEPT !.annotatedItems = rest, !.workingSet = workingSet]
      IN IF \E k \in 1..Len(workingSet) : workingSet[k].record = Undefined
         THEN Crash(r, <<>>)
         ELSE [st |-> [st2 EXCEPT !.pc = "awaitWrite"],
               out |-> <<Ev(r, "write",
                            [k \in 1..Len(workingSet) |->
                                [id |-> workingSet[k].record.id,
                                 value |-> FieldValue(workingSet[k])]],
                            "")>>]
    ELSE Return(r, <<>>)

\* the first while loop fetching one item per request
YTFetchLoop_PerItem(r, st) ==
    IF st.bareItems # <<>>
    THEN [st |-> [st EXCEPT !.bareItems = Tail(@),
                            !.workingSet = <<Head(st.bareItems)>>,
                            !.pc = "awaitFetch"],
          out |-> <<Ev(r, "fetch", <<Head(st.bareItems).record.id>>, "")>>]
    ELSE LET nxt == YTWriteLoop(r, st)
         IN [st |-> nxt.st,
             out |-> <<Ev(r, "writeAll", st.annotatedItems, "")>> \o nxt.out]

\* the first while loop at its head: the next batch of bare items is fetched
YTFetchLoop(r, st) ==
    IF st.bareItems # <<>>
    THEN
      LET workingSet == spliceHead(st.bareItems, maxYoutubeResults)
          rest == spliceRest(st.bareItems, maxYoutubeResults)
      IN [st |-> [st EXCEPT !.bareItems = rest, !.workingSet = workingSet,
                            !.pc = "awaitFetch"],
          out |-> <<Ev(r, "fetch",
                       [k \in 1..Len(workingSet) |-> workingSet[k].record.id],
                       "")>>]
    ELSE LET nxt == YTWriteLoop(r, st)
         IN [st |-> nxt.st,
             out |-> <<Ev(r, "writeAll", st.annotatedItems, "")>> \o nxt.out]

\* query.records.map(...).filter(...)
BareItems(records) ==
    SelectSeq([k \in 1..Len(records) |->
                  [record |-> records[k], videoId |-> parseId(records[k].src)]],
              LAMBDA item : item.videoId # NoId)

\* the script is started; it runs up to `await table.selectRecordsAsync`.
\* The scripting host executes one script at a time, so a run starts only
\* when the previous one is over.
YTStart(r) ==
    /\ variant = "youtube"
    /\ NextRun(r)
    /\ \A q \in Runs : q < r => Finished(runs[q])
    /\ Commit(r, [st |-> [NoRun EXCEPT !.pc = "awaitSelect"],
                  out |-> <<Ev(r, "start", <<>>, ""),
                            Ev(r, "select", <<>>, "")>>], {}, <<>>)
    /\ UNCHANGED <<variant, hasPermission, settings, table, store,
                   isUpdateInProgress, api>>

YTSelected(r) ==
    /\ variant = "youtube"
    /\ runs[r].pc = "awaitSelect"
    /\ \E c \in pending :
         /\ c.run = r /\ c.op = "select"
         /\ LET st == [runs[r] EXCEPT !.records = table,
                                      !.bareItems = BareItems(table)]
                nxt == YTFetchLoop(r, st)
            IN Commit(r, [st |-> nxt.st,
                          out |-> <<Ev(r, "selectDone", <<>>, "ok")>> \o nxt.out],
                      {c}, log)
    /\ UNCHANGED <<variant, hasPermission, settings, table, store,
                   isUpdateInProgress, api>>

\* the first while loop handing each fetched batch to the write loop at
\* once, before the remaining batches are fetched
YTAfterFetch_WriteEach(r, st, c, resp) ==
    LET result == fetchVideoData(st.workingSet, settings.statistic, resp)
        status == IF resp.kind = "rejected" THEN "rejected"
                  ELSE IF ~resp.ok THEN "notOk"
                  ELSE IF result.thrown THEN "pathNotFound"
                  ELSE "ok"
        done == Ev(r, "fetchDone", result.value, status)
    IN IF result.thrown
       THEN Crash(r, <<done>>)
       ELSE LET nxt == YTWriteLoop(r,
                          [st EXCEPT !.annotatedItems = result.value])
            IN [st |-> nxt.st,
                out |-> <<done, Ev(r, "writeAll", result.value, "")>>
                        \o nxt.out]

\* the first while loop after `await fetchVideoData`
YTAfterFetch(r, st, c, resp) ==
    LET result == fetchVideoData(st.workingSet, settings.statistic, resp)
        status == IF resp.kind = "rejected" THEN "rejected"
                  ELSE IF ~resp.ok THEN "notOk"
                  ELSE IF result.thrown THEN "pathNotFound"
                  ELSE "ok"
        done == Ev(r, "fetchDone", result.value, status)
    IN IF result.thrown
       THEN Crash(r, <<done>>)
       ELSE LET nxt == YTFetchLoop(r,
                          [st EXCEPT !.annotatedItems = @ \o result.value])
            IN [st |-> nxt.st, out |-> <<done>> \o nxt.out]

YTFetchCompleted(r) ==
    /\ variant = "youtube"
    /\ runs[r].pc = "awaitFetch"
    /\ \E c \in pending :
         /\ c.run = r /\ c.op = "fetch"
         /\ \E resp \in YTAnswers(
                  [k \in 1..Len(runs[r].workingSet) |->
                      runs[r].workingSet[k].videoId],
                  PartOf(settings.statistic)) :
              Commit(r, YTAfterFetch(r, runs[r], c, resp), {c}, log)
    /\ UNCHANGED <<variant, hasPermission, settings, table, store,
                   isUpdateInProgress, api>>

\* the second while loop after `await table.updateRecordsAsync`
YTAfterWrite(r, st, c, ok) ==
    IF ok
    THEN LET nxt == YTWriteLoop(r, st)
         IN [st |-> nxt.st,
             out |-> <<Ev(r, "writeDone", c.arg, "ok")>> \o nxt.out]
    ELSE Crash(r, <<Ev(r, "writeDone", c.arg, "failed")>>)

\* updateRecordsAsync settles: it may always fail, and it succeeds only for
\* a user who may update the field
YTWriteCompleted(r) ==
    /\ variant = "youtube"
    /\ runs[r].pc = "awaitWrite"
    /\ \E c \in pending, ok \in BOOLEAN :
         /\ c.run = r /\ c.op = "write"
         /\ ok => hasPermission
         /\ Commit(r, YTAfterWrite(r, runs[r], c, ok), {c}, log)
         /\ store' = IF ok THEN ApplyUpdates(store, c.arg) ELSE store
    /\ UNCHANGED <<variant, hasPermission, settings, table,
                   isUpdateInProgress, api>>

(***************************************************************************)
(* Specification                                                           *)
(***************************************************************************)
Step(r) ==
    \/ onButtonClick(r)
    \/ TWFetchCompleted(r)
    \/ TWDelayElapsed(r)
    \/ TWWriteCompleted(r)
    \/ YTStart(r)
    \/ YTSelected(r)
    \/ YTFetchCompleted(r)
    \/ YTWriteCompleted(r)

\* one run of the pipeline over a table of up to MaxRecords records
Next == Step(1)

Spec == Init /\ [][Next]_vars

\* up to MaxRuns runs, one after the other, over a table of up to
\* MaxRunRecords records
NextRuns == \E r \in Runs : Step(r)

SpecRuns == InitRuns /\ [][NextRuns]_vars

\* one run over the larger sets of source values
SpecExtract == InitExtract /\ [][Next]_vars

\* the same runs against an API that answers a request the same way every
\* time
SpecSame == InitSame /\ [][NextRuns]_vars

TypeOK ==
    /\ variant \in {"twitter", "youtube"}
    /\ hasPermission \in BOOLEAN
    /\ isUpdateInProgress \in BOOLEAN
    /\ Len(table) <= MaxRecords
    /\ DOMAIN store = 1..Len(table)
    /\ \A r \in Runs :
         runs[r].pc \in {"idle", "awaitSelect", "awaitFetch", "delay",
                         "awaitWrite", "done", "crashed"}
    /\ \A c \in pending : c.op \in CallOps /\ c.run \in Runs

(***************************************************************************)
(* Observations on the calls of the latest run                             *)
(***************************************************************************)
EventsOf(op) == SelectSeq(log, LAMBDA e : e.op = op)

ArgsOf(op) == [k \in 1..Len(EventsOf(op)) |-> EventsOf(op)[k].arg]

RECURSIVE Concat(_)
Concat(seqs) == IF seqs = <<>> THEN <<>> ELSE Head(seqs) \o Concat(Tail(seqs))

HasHandoff == \E k \in 1..Len(log) : log[k].op = "writeAll"

\* the list handed to the Batch Writer when the fetch phase ended
HandedList == EventsOf("writeAll")[1].arg

\* the update the writer derives from an entry of the handed list
UpdateOf(entry) ==
    IF variant = "twitter" THEN entry
    ELSE [id |-> entry.record.id, value |-> FieldValue(entry)]

RunDone == \E k \in 1..Len(log) : log[k].op = "end" /\ log[k].res = "done"

WriteLimit ==
    IF variant = "twitter" THEN MAX_RECORDS_PER_UPDATE ELSE maxAirtableWrites

FetchLimit == maxYoutubeResults

\* the records whose source value passes extraction
Survivors ==
    IF variant = "twitter"
    THEN SelectSeq(table, LAMBDA rec : rec.src # <<>> /\ MatchStatus(rec.src))
    ELSE SelectSeq(table, LAMBDA rec : parseId(rec.src) # NoId)

IdsOf(recs) == [k \in 1..Len(recs) |-> recs[k].id]

BatchSizeOK(chunk) == Len(chunk) >= 1 /\ Len(chunk) <= WriteLimit

\* C2: every call of updateRecordsAsync carries at least one and at most
\* maxWriteBatchSize updates, and the destination cells change only when
\* such a call completes, by exactly the updates of that one batch.
C2_StoreMutatedByBoundedBatches ==
    [][ /\ \A k \in 1..Len(log') :
             log'[k].op = "write" => BatchSizeOK(log'[k].arg)
        /\ store' # store =>
             \E c \in pending :
                /\ c.op = "write"
                /\ c \notin pending'
                /\ BatchSizeOK(c.arg)
                /\ store' = ApplyUpdates(store, c.arg) ]_vars

\* a full batch and then a smaller one have been written to the store
C2_Witness ==
    LET done == EventsOf("writeDone") IN
    /\ Len(done) = 2
    /\ done[1].res = "ok" /\ Len(done[1].arg) = WriteLimit
    /\ done[2].res = "ok" /\ Len(done[2].arg) = 1
    /\ \E id \in DOMAIN store : store[id] # Null

(***************************************************************************)
(* C3                                                                      *)
(***************************************************************************)
\* the fetch calls are the batches of the surviving items: at most
\* FetchLimit identifiers each, and once the fetch phase is over
\* ceil(n / FetchLimit) calls, all but the last of FetchLimit identifiers,
\* in the order the records were read
FetchesAreBatches ==
    LET F == ArgsOf("fetch")
        n == Len(Survivors)
    IN /\ \A k \in 1..Len(F) : Len(F[k]) <= FetchLimit
       /\ HasHandoff =>
            /\ Len(F) = CeilDiv(n, FetchLimit)
            /\ \A k \in 1..(Len(F) - 1) : Len(F[k]) = FetchLimit
            /\ Concat(F) = IdsOf(Survivors)

C4_IndicatorClearedWhenIdle ==
    (\A r \in Runs : ~Running(runs[r])) => ~isUpdateInProgress

(***************************************************************************)
(* C5                                                                      *)
(***************************************************************************)
\* C5: without the permission to update the destination field the pipeline
\* does no work: no fetch call and no write call is ever issued.
C5_NoCallWithoutPermission ==
    ~hasPermission =>
        \A k \in 1..Len(log) : log[k].op \notin {"fetch", "write"}

(***************************************************************************)
(* C6                                                                      *)
(***************************************************************************)
DoneOp(op) ==
    IF op = "select" THEN "selectDone"
    ELSE IF op = "fetch" THEN "fetchDone"
    ELSE "writeDone"

\* C6: a run has at most one external call in flight, and it issues a call
\* only after its previous call has completed, with or without success.
C6_OneCallInFlight ==
    /\ \A r \in Runs : Cardinality({c \in pending : c.run = r}) <= 1
    /\ \A i, j \in 1..Len(log) :
         (/\ i < j
          /\ log[i].op \in CallOps /\ log[j].op \in CallOps
          /\ log[i].run = log[j].run)
         => \E k \in (i + 1)..(j - 1) :
               log[k].op = DoneOp(log[i].op) /\ log[k].run = log[i].run

\* a second write call is in flight after the first one completed
C6_Witness ==
    /\ \E c \in pending : c.op = "write"
    /\ Len(EventsOf("writeDone")) = 1
    /\ Len(EventsOf("fetchDone")) >= 1

(***************************************************************************)
(* C7                                                                      *)
(***************************************************************************)
\* C7: at most one run is Running at any time, and while a run of the
\* Twitter block is in progress its start button is not available.
C7_OneRunAtATime ==
    /\ Cardinality({r \in Runs : Running(runs[r])}) <= 1
    /\ (variant = "twitter" /\ \E r \in Runs : Running(runs[r]))
          => ~ButtonEnabled

\* a second run of the Twitter block is in progress after the first returned
C7_Witness ==
    /\ variant = "twitter"
    /\ runs[1].pc = "done"
    /\ Running(runs[2])
    /\ pending # {}

(***************************************************************************)
(* C8                                                                      *)
(***************************************************************************)
RECURSIVE ApplyAll(_, _)
\* the cells after the batches of chunks have been applied in order
ApplyAll(cells, chunks) ==
    IF chunks = <<>> THEN cells
    ELSE ApplyAll(ApplyUpdates(cells, Head(chunks)), Tail(chunks))

CommittedChunks ==
    LET ok == SelectSeq(log, LAMBDA e : e.op = "writeDone" /\ e.res = "ok")
    IN [k \in 1..Len(ok) |-> ok[k].arg]

\* C8: after a failed write call the run issues no further write call, and
\* the store holds exactly the updates of the chunks written before it:
\* the cells are the initial cells with the committed chunks applied, in
\* order, and these chunks are the first chunks of the handed list.
C8_FailedWriteHaltsKeepsPrefix ==
    /\ \A k \in 1..Len(log) :
         (log[k].op = "writeDone" /\ log[k].res = "failed")
         => \A j \in (k + 1)..Len(log) : log[j].op \notin {"write", "writeDone"}
    /\ store = ApplyAll([id \in DOMAIN store |-> Null], CommittedChunks)
    /\ \A k \in 1..Len(CommittedChunks) :
         CommittedChunks[k] = ArgsOf("write")[k]

\* the first chunk was committed, the write of the second one failed and
\* the run is over with the first chunk still in the store
C8_Witness ==
    LET done == EventsOf("writeDone") IN
    /\ Len(done) = 2
    /\ done[1].res = "ok"
    /\ done[2].res = "failed"
    /\ runs[1].pc = "crashed"
    /\ \E id \in DOMAIN store : store[id] # Null
    /\ \E id \in DOMAIN store : id = done[2].arg[1].id /\ store[id] = Null

(***************************************************************************)
(* C9                                                                      *)
(***************************************************************************)
\* C9: once a fetch call of the run has failed (rejected, non-success
\* status, or statistic path missing) the run issues no further fetch call
\* and no write call, and the store is left as it was.
C9_FailedFetchAborts ==
    \A k \in 1..Len(log) :
        (log[k].op = "fetchDone" /\ log[k].res # "ok")
        => /\ \A j \in (k + 1)..Len(log) : log[j].op \notin {"fetch", "write"}
           /\ store = [id \in DOMAIN store |-> Null]

(***************************************************************************)
(* C10                                                                     *)
(***************************************************************************)
\* C10: a call of fetchVideoData for a batch of n items fails or returns a
\* list of exactly n entries.
C10_ResultLengthMatchesBatch ==
    variant = "youtube" =>
        \A k \in 1..Len(EventsOf("fetchDone")) :
            EventsOf("fetchDone")[k].res = "ok"
            => Len(EventsOf("fetchDone")[k].arg) = Len(EventsOf("fetch")[k].arg)

(***************************************************************************)
(* C11                                                                     *)
(***************************************************************************)
\* the value the destination field of a record gets when the statistic
\* comes from the API's entry for the video named by the record's own source
OwnValue(id) ==
    LET src  == table[CHOOSE k \in 1..Len(table) : table[k].id = id].src
        item == VideoResource(parseId(src), PartOf(settings.statistic), TRUE)
    IN  FieldValue([statistic |->
                       JSONstringify(getPath(item, settings.statistic))])

\* C11: every value passed to updateRecordsAsync for a record is the one
\* derived from the API response entry of the video id extracted from that
\* same record, never from the entry of another record's video, whatever
\* subset of the requested ids the response holds.
C11_ValueFromOwnEntry ==
    variant = "youtube" =>
        \A k \in 1..Len(ArgsOf("write")) :
            \A j \in 1..Len(ArgsOf("write")[k]) :
                LET u == ArgsOf("write")[k][j] IN u.value = OwnValue(u.id)

(***************************************************************************)
(* C12                                                                     *)
(***************************************************************************)
\* C12: between two successive fetch calls of a run a throttle delay
\* elapses: the later fetch is never issued without a completed delayAsync
\* since the earlier one, also when the earlier record or batch was skipped.
C12_DelayBetweenFetches ==
    \A i \in 1..Len(log) : \A j \in (i + 1)..Len(log) :
        (log[i].op = "fetch" /\ log[j].op = "fetch")
        => \E d \in (i + 1)..(j - 1) : log[d].op = "delayDone"

(***************************************************************************)
(* C13                                                                     *)
(***************************************************************************)
\* C13: every fetch call of a run is issued for records that passed
\* extraction: none for a record whose source value is empty, yields no
\* video id, or lacks the /status/ marker.
C13_FetchOnlySurvivors ==
    \A k \in 1..Len(ArgsOf("fetch")) :
        \A j \in 1..Len(ArgsOf("fetch")[k]) :
            \E s \in 1..Len(Survivors) :
                Survivors[s].id = ArgsOf("fetch")[k][j]

(***************************************************************************)
(* C14                                                                     *)
(***************************************************************************)
\* C14: when the sources do not change and the API answers every request
\* the way it did before, a run that follows a completed run leaves every
\* destination value as the completed run left it: each of its steps, the
\* writes included, leaves the store unchanged.
C14_SecondRunKeepsStore == [][runs[1].pc = "done" => store' = store]_vars

\* a second run has returned after a successful write of values that the
\* first run, which returned too, had written
C14_Witness ==
    /\ runs[1].pc = "done"
    /\ runs[2].pc = "done"
    /\ \E k \in 1..Len(log) :
         log[k].run = 2 /\ log[k].op = "writeDone" /\ log[k].res = "ok"
    /\ \E id \in DOMAIN store : store[id] # Null

(***************************************************************************)
(* C15                                                                     *)
(***************************************************************************)
\* the strings the API holds at the statistic path of its video entries
RawStatistics ==
    { getPath(VideoResource(vid, PartOf(settings.statistic), TRUE),
              settings.statistic).s : vid \in VideoIds \cup {"z"} }

\* C15: when the destination field is attachment-type and the statistic
\* path leads to a URL string, every value passed to updateRecordsAsync is
\* the one-element list [{url: u}] where u is, character for character, a
\* string the API holds at the statistic path.
C15_AttachmentUrlUnchanged ==
    (/\ variant = "youtube"
     /\ settings.destType = "multipleAttachments"
     /\ settings.statistic = <<"snippet", "thumb">>) =>
        \A k \in 1..Len(ArgsOf("write")) :
            \A j \in 1..Len(ArgsOf("write")[k]) :
                \E u \in RawStatistics :
                    ArgsOf("write")[k][j].value =
                        [t |-> "attachments", list |-> <<[url |-> u]>>]

(***************************************************************************)
(* C16                                                                     *)
(***************************************************************************)
\* the domain of the service the variant reads from
ExpectedDomain == IF variant = "twitter" THEN "twitter" ELSE "youtube"

\* the source value is a URL whose host is the expected domain or one of
\* its subdomains
OnExpectedHost(src) ==
    LET u == ParseURL(src)
        n == Len(u.host)
    IN /\ u.ok
       /\ n >= 3
       /\ SubSeq(u.host, n - 2, n) = <<ExpectedDomain, ".", "com">>
       /\ n > 3 => (n >= 5 /\ u.host[n - 3] = ".")

\* the ids of the records for which extraction gave an identifier: those
\* in a videos.list request, those in the list of tweet updates
Extracted ==
    IF variant = "twitter"
    THEN IF HasHandoff
         THEN {HandedList[k].id : k \in 1..Len(HandedList)}
         ELSE {}
    ELSE {Concat(ArgsOf("fetch"))[k] : k \in 1..Len(Concat(ArgsOf("fetch")))}

\* C16: extraction gives an identifier for a record only when its source
\* value is a URL whose host is exactly the service's domain or a subdomain
\* of it, by parseId as by the Twitter pattern check.
C16_IdentifierOnlyFromExpectedHost ==
    \A k \in 1..Len(table) :
        table[k].id \in Extracted => OnExpectedHost(table[k].src)

(***************************************************************************)
(* C17                                                                     *)
(***************************************************************************)
\* the fetch phase of the run is over: a fetch call was issued for every
\* record (Twitter) or for every record with a video id (YouTube), and each
\* of them has completed
FetchPhaseOver(upTo) ==
    LET before == SubSeq(log, 1, upTo)
        fetches == SelectSeq(before, LAMBDA e : e.op = "fetch")
        dones == SelectSeq(before, LAMBDA e : e.op = "fetchDone")
    IN /\ Len(dones) = Len(fetches)
       /\ Concat([k \in 1..Len(fetches) |-> fetches[k].arg])
            = IF variant = "twitter" THEN IdsOf(table) ELSE IdsOf(Survivors)

\* C17: a write call is issued only after every fetch call of the run has
\* completed: when it is issued the fetch phase is over, no fetch follows
\* it, and the list of updates was handed to the writer once.
C17_WritesAfterAllFetches ==
    /\ Len(EventsOf("writeAll")) <= 1
    /\ \A i \in 1..Len(log) :
         log[i].op = "write" =>
           /\ FetchPhaseOver(i)
           /\ \A j \in (i + 1)..Len(log) :
                log[j].op \notin {"fetch", "fetchDone", "writeAll"}
           /\ \E h \in 1..(i - 1) : log[h].op = "writeAll"

\* two write calls issued after two fetch calls or more
C17_Witness ==
    /\ Len(EventsOf("fetchDone")) >= 2
    /\ Len(EventsOf("write")) >= 2

(***************************************************************************)
(* C18                                                                     *)
(***************************************************************************)
\* the ids of the records that extraction drops
Dropped == {table[k].id : k \in 1..Len(table)}
             \ {Survivors[k].id : k \in 1..Len(Survivors)}

\* no write chunk of the run names a dropped record, and its destination
\* value is the one it had before the run
DroppedNotWritten ==
    \A id \in Dropped :
        /\ \A k \in 1..Len(ArgsOf("write")) :
             \A j \in 1..Len(ArgsOf("write")[k]) : ArgsOf("write")[k][j].id # id
        /\ store[id] = Null

\* a run that returned has issued a fetch for every surviving record
SurvivorsFetched ==
    RunDone => \A s \in 1..Len(Survivors) :
                  \E k \in 1..Len(ArgsOf("fetch")) :
                      \E j \in 1..Len(ArgsOf("fetch")[k]) :
                          ArgsOf("fetch")[k][j] = Survivors[s].id

\* no run is ended by a call made for a dropped record
DroppedNeverAborts ==
    \A k \in 1..Len(EventsOf("fetchDone")) :
        EventsOf("fetchDone")[k].res = "rejected" =>
            \A j \in 1..Len(EventsOf("fetch")[k].arg) :
                EventsOf("fetch")[k].arg[j] \notin Dropped

\* C18: a record dropped by extraction is in no write chunk and keeps its
\* destination value, and it does not end the run: no call made for it
\* fails the run, and a run that returns has fetched every other record.
C18_DroppedRecordLeftAlone ==
    /\ DroppedNotWritten
    /\ SurvivorsFetched
    /\ DroppedNeverAborts

(***************************************************************************)
(* C19                                                                     *)
(***************************************************************************)
\* C19: over the chunks passed to updateRecordsAsync in one run every
\* record id occurs at most once, whatever the sources and the answers of
\* the API.
C19_RecordWrittenOnce ==
    LET written == Concat(ArgsOf("write")) IN
    \A i \in 1..Len(written) : \A j \in 1..Len(written) :
        written[i].id = written[j].id => i = j

\* two chunks, three updates or more, have been passed to updateRecordsAsync
C19_Witness ==
    /\ Len(ArgsOf("write")) >= 2
    /\ Len(Concat(ArgsOf("write"))) >= 3
    /\ Len(EventsOf("writeDone")) >= 1

====
